---- MODULE Spec2Model ----
(***************************************************************************)
(* State-machine model of gnn_vae.ipynb: mol_to_graph, the GraphVAE        *)
(* attention layer, VAE_GNN (encode / reparameterize / decode),            *)
(* loss_function, train and generate_molecule.                             *)
(*                                                                         *)
(* Tensors are records [shape, val].  Indices are 0-based as in the        *)
(* source; TLA+ sequences are 1-based, so element i of a Python list l is  *)
(* l[i + 1].                                                               *)
(***************************************************************************)
EXTENDS Integers, Sequences, FiniteSets, TLC

(***************************************************************************)
(* Bounds of the model.                                                    *)
(***************************************************************************)
MaxAtoms == 3
MaxBonds == 2
MaxDim == 3
MaxEpochs == 2
MaxBatches == 2
MaxSamples == 3
MaxEntries == 2

\* Atomic numbers the input molecules draw their atoms from (C, O).
AtomicNums == {6, 8}

VARIABLES
    mol,         \* mol_to_graph: the RDKit molecule [atoms, bonds]
    data,        \* mol_to_graph: the returned Data(x, edge_index), or NoData
    mpc          \* mol_to_graph: "call" before the call, "done" after it

VARIABLES
    graph,       \* GraphVAE.forward: the Data(x, edge_index) the layer is applied to
    layer,       \* GraphVAE: [in_channels, out_channels, heads, node_dim, training]
    params,      \* the model's parameters (a version number; 0 as constructed)
    qkv,         \* GraphVAE.forward: Q, K, V after the three projections and views
    agg,         \* GraphVAE.forward: what propagate returned
    out,         \* GraphVAE.forward: the returned tensor
    lpc          \* GraphVAE.forward: position

VARIABLES
    model,       \* VAE_GNN: [in_channels, hidden_channels, latent_dim, num_layers,
                 \*           node_dim, training]
    encx,        \* VAE_GNN.encode: the local x, the features after the layers run so far
    li,          \* VAE_GNN.encode: how many layers have run
    dropUsed,    \* VAE_GNN.encode: whether a dropout mask of this call dropped an entry
    encs,        \* what the encode calls made so far returned, oldest first
    encModes,    \* model.training at each of those calls
    epc          \* VAE_GNN.encode: position

VARIABLES
    setup,       \* what train is called with: "notebook" (VAE_GNN and mol_to_graph's
                 \* Data as written) or "returning" (a model whose forward returns the
                 \* decoder's output, on batches that carry mu and logvar)
    epochs,      \* train: the argument epochs
    nb,          \* train: len(loader)
    epoch,       \* train: the loop variable epoch
    bi,          \* train: how many batches of the loader this pass has taken
    grads,       \* the gradients the optimizer holds
    fwd,         \* train: the local out
    loss,        \* train: the local loss
    total_loss,  \* train: the local total_loss
    reports,     \* the averages printed so far, oldest first
    steps,       \* how many times optimizer.step() ran
    passLog,     \* the batches this pass took and their losses
    tpc          \* train: position

VARIABLES
    num_samples, \* generate_molecule: the argument num_samples
    samples,     \* generate_molecule: the local samples
    zs,          \* the latent vectors drawn, oldest first
    gpc          \* generate_molecule: position

VARIABLES
    BCE,         \* loss_function: the local BCE, in units of 1/2000
    mu,          \* loss_function: the argument mu, its entries in order
    logvar,      \* loss_function: the argument logvar, its entries in order
    KL,          \* loss_function: the local KL, in units of 1/2000
    ret,         \* loss_function: the returned value, in units of 1/2000
    kpc          \* loss_function: position

molVars == <<mol, data, mpc>>
lossVars == <<BCE, mu, logvar, KL, ret, kpc>>
trainVars == <<setup, epochs, nb, epoch, bi, grads, fwd, loss, total_loss, reports,
               steps, passLog, tpc>>
genVars == <<num_samples, samples, zs, gpc>>
encVars == <<model, encx, li, dropUsed, encs, encModes, epc>>
layerVars == <<graph, layer, params, qkv, agg, out, lpc>>
vars == <<molVars, layerVars, encVars, trainVars, genVars, lossVars>>

(***************************************************************************)
(* Generic helpers.                                                        *)
(***************************************************************************)
Range(s) == {s[k] : k \in DOMAIN s}

SeqsUpTo(S, n) == UNION {[1..k -> S] : k \in 0..n}

(***************************************************************************)
(* Input molecules.  An RDKit molecule exposes GetAtoms() (atom idx        *)
(* 0..N-1, each with an atomic number) and GetBonds() (each with a begin   *)
(* and an end atom idx; a bond joins two distinct atoms of the molecule    *)
(* and no two bonds join the same pair).                                   *)
(***************************************************************************)
DirPairs(N) == {p \in (0..(N - 1)) \X (0..(N - 1)) : p[1] # p[2]}

Unordered(p) == {p[1], p[2]}

BondSeqs(N) ==
    {b \in SeqsUpTo(DirPairs(N), MaxBonds) :
        \A k1, k2 \in DOMAIN b : k1 # k2 => Unordered(b[k1]) # Unordered(b[k2])}

Mols ==
    UNION {{[atoms |-> a, bonds |-> b] : a \in [1..N -> AtomicNums], b \in BondSeqs(N)}
           : N \in 0..MaxAtoms}

(***************************************************************************)
(* torch.tensor(list) and Tensor.t().                                      *)
(* torch.tensor of a list of R rows of width W has shape (R, W); of the    *)
(* empty list it has shape (0,).  t() swaps the two axes of a 2-D tensor   *)
(* and returns a tensor of fewer dimensions as it is.                      *)
(***************************************************************************)
TorchTensor(rows, width) ==
    IF Len(rows) = 0
    THEN [shape |-> <<0>>, val |-> <<>>]
    ELSE [shape |-> <<Len(rows), width>>, val |-> rows]

Transpose(t) ==
    IF Len(t.shape) < 2
    THEN t
    ELSE [shape |-> <<t.shape[2], t.shape[1]>>,
          val   |-> [c \in 1..t.shape[2] |-> [r \in 1..t.shape[1] |-> t.val[r][c]]]]

NoData == [x |-> [shape |-> <<>>, val |-> <<>>],
           edge_index |-> [shape |-> <<>>, val |-> <<>>]]

(***************************************************************************)
(* mol_to_graph.                                                           *)
(***************************************************************************)
\* The two appends of one iteration of the bond loop.
BondEdges_OneWay(i, j) == <<<<i, j>>>>

BondEdges(i, j) == <<<<i, j>>, <<j, i>>>>

\* for atom in mol.GetAtoms(): nodes.append([atom.GetAtomicNum()])
RECURSIVE AtomLoop(_, _)
AtomLoop(atoms, acc) ==
    IF atoms = <<>> THEN acc
    ELSE AtomLoop(Tail(atoms), Append(acc, <<Head(atoms)>>))

\* for bond in mol.GetBonds(): edge_index.append([i, j]); edge_index.append([j, i])
RECURSIVE BondLoop(_, _)
BondLoop(bonds, acc) ==
    IF bonds = <<>> THEN acc
    ELSE BondLoop(Tail(bonds), acc \o BondEdges(Head(bonds)[1], Head(bonds)[2]))

MolToGraph(m) ==
    LET nodeList == AtomLoop(m.atoms, <<>>)
        edgeList == BondLoop(m.bonds, <<>>)
    IN  [x |-> TorchTensor(nodeList, 1),
         edge_index |-> Transpose(TorchTensor(edgeList, 2))]

(***************************************************************************)
(* Tensors inside the model carry ok/err (an exception raised while        *)
(* computing them), the shape, the values and, for a layer's output, the   *)
(* input tensor its rows refer to.                                         *)
(***************************************************************************)
Fail(msg) == [ok |-> FALSE, err |-> msg, shape |-> <<>>, val |-> <<>>, src |-> <<>>]

Tensor(shape, val, src) == [ok |-> TRUE, err |-> "", shape |-> shape, val |-> val, src |-> src]

RECURSIVE Numel(_)
Numel(shape) == IF shape = <<>> THEN 1 ELSE Head(shape) * Numel(Tail(shape))

Front(s) == SubSeq(s, 1, Len(s) - 1)

Max(a, b) == IF a >= b THEN a ELSE b

\* Positions k of idx (1-based, in order) with idx[k] = i.
PositionsOf(idx, i) == SelectSeq([k \in 1..Len(idx) |-> k], LAMBDA k : idx[k] = i)

\* Shape of a + b for tensors of at most two dimensions (NumPy broadcasting):
\* shapes are aligned at the last dimension, a missing dimension counts as 1,
\* and two sizes agree when they are equal or one of them is 1.
BroadcastShape(s1, s2) ==
    LET r == Max(Len(s1), Len(s2))
        Pad(s) == [k \in 1..r |-> IF k <= r - Len(s) THEN 1 ELSE s[k - (r - Len(s))]]
        a == Pad(s1)
        b == Pad(s2)
    IN  IF \A k \in 1..r : a[k] = b[k] \/ a[k] = 1 \/ b[k] = 1
        THEN [ok |-> TRUE, shape |-> [k \in 1..r |-> IF a[k] = 1 THEN b[k] ELSE a[k]]]
        ELSE [ok |-> FALSE, shape |-> <<>>]

(***************************************************************************)
(* GraphVAE (the attention message-passing layer).                         *)
(*                                                                         *)
(* A feature vector (the last dimension of Q, K, V) is kept as a term:     *)
(* [op |-> "lin_q", n |-> node, h |-> head] is head h of lin_q applied to  *)
(* row n of the layer's input.  A 3-D tensor is a sequence (dimension 0)   *)
(* of sequences (dimension 1) of such vectors.                             *)
(***************************************************************************)
\* heads=4, the default every layer of VAE_GNN is built with
Heads == 4

\* self.lin_*(x).view(-1, self.heads, self.out_channels)
Project(x, name, lyr) ==
    LET H == lyr.heads
        D == lyr.out_channels
        r == Len(x.shape)
    IN  IF r = 0 \/ x.shape[r] # lyr.in_channels
        THEN Fail("Linear: last dimension of the input is not in_features")
        ELSE LET numel == Numel(Front(x.shape)) * H * D IN
             IF numel = 0
             THEN Fail("view: -1 is ambiguous for a tensor of 0 elements")
             ELSE Tensor(<<numel \div (H * D), H, D>>,
                         [n \in 1..(numel \div (H * D)) |->
                            [h \in 1..H |-> [op |-> name, n |-> n - 1, h |-> h - 1]]],
                         <<>>)

\* MessagePassing's node axis of a 3-D tensor, 1-based: node_dim 0 is the
\* first axis, node_dim -2 the second.
NodeAxis(node_dim) == IF node_dim = 0 THEN 1 ELSE 2

\* Tensor.index_select(node_dim, index) on a 3-D tensor.
IndexSelect(val, axis, idx) ==
    IF axis = 1
    THEN [a \in 1..Len(idx) |-> val[idx[a] + 1]]
    ELSE [a \in 1..Len(val) |-> [b \in 1..Len(idx) |-> val[a][idx[b] + 1]]]

\* score = (Q_i * K_j).sum(dim=-1, keepdim=True) / (self.out_channels ** 0.5)
Score(Q_i, K_j) ==
    [a \in DOMAIN Q_i |-> [b \in DOMAIN Q_i[a] |-> [q |-> Q_i[a][b], k |-> K_j[a][b]]]]

\* torch.softmax(score, dim=1): each entry is normalised over the entries
\* that differ from it in the index of dimension 1 only.
Softmax(score) ==
    [a \in DOMAIN score |->
        [b \in DOMAIN score[a] |-> [score |-> score[a][b], group |-> score[a]]]]

\* self.dropout(score): an active nn.Dropout zeroes the entries of the mask
\* and rescales the others by 1/(1-p); an inactive one is the identity.
Dropout(alpha, mask) ==
    [a \in DOMAIN alpha |->
        [b \in DOMAIN alpha[a] |->
            [alpha |-> alpha[a][b],
             keep  |-> IF ~mask.active THEN "identity"
                       ELSE IF <<a, b>> \in mask.dropped THEN "zeroed" ELSE "rescaled"]]]

\* The masks self.dropout may draw for a score tensor with entries at
\* `positions`.  nn.Dropout draws a mask only in training mode; there every
\* entry is dropped independently, and the model follows the masks that drop
\* no entry or exactly one.  In evaluation mode the module is inactive.
DropMasks_IgnoreMode(training, positions) ==
    {[active |-> TRUE, dropped |-> d] : d \in {{}} \cup {{pos} : pos \in positions}}

DropMasks(training, positions) ==
    IF training
    THEN {[active |-> TRUE, dropped |-> d] : d \in {{}} \cup {{pos} : pos \in positions}}
    ELSE {[active |-> FALSE, dropped |-> {}]}

\* GraphVAE.message: return score * V_j
Message(Q_i, K_j, V_j, mask) ==
    LET w == Dropout(Softmax(Score(Q_i, K_j)), mask)
    IN  [a \in DOMAIN w |-> [b \in DOMAIN w[a] |-> [w |-> w[a][b], v |-> V_j[a][b]]]]

\* aggr='add': the messages are summed along the node axis into the slot
\* their target index names; a slot is the sequence of its summands, and the
\* empty sequence is the zero vector.
Aggregate(msgs, axis, dst, size, shape) ==
    IF axis = 1
    THEN [i \in 1..size |->
            [b \in 1..shape[2] |->
                LET inc == PositionsOf(dst, i - 1)
                IN  [k \in 1..Len(inc) |-> msgs[inc[k]][b]]]]
    ELSE [a \in 1..shape[1] |->
            [i \in 1..size |->
                LET inc == PositionsOf(dst, i - 1)
                IN  [k \in 1..Len(inc) |-> msgs[a][inc[k]]]]]

\* Whether propagate accepts edge_index: a 2-D tensor with two rows.
EdgeIndexOk(ei) == Len(ei.shape) = 2 /\ ei.shape[1] = 2

\* The index pairs of the score tensor message computes (all but its last,
\* singleton dimension), or none when propagate raises before message.
ScorePositions(ei, Q, lyr) ==
    IF ~Q.ok \/ ~EdgeIndexOk(ei) THEN {}
    ELSE LET axis == NodeAxis(lyr.node_dim)
             E == ei.shape[2]
         IN  IF \E e \in 1..E : ei.val[1][e] >= Q.shape[axis] \/ ei.val[2][e] >= Q.shape[axis]
             THEN {}
             ELSE IF axis = 1 THEN (1..E) \X (1..Q.shape[2])
                  ELSE (1..Q.shape[1]) \X (1..E)

\* self.propagate(edge_index, Q=Q, K=K, V=V) with flow source_to_target:
\* edge_index[0] holds the sources j, edge_index[1] the targets i.
Propagate(ei, Q, K, V, lyr, mask) ==
    IF ~EdgeIndexOk(ei)
    THEN Fail("propagate: edge_index is not a 2-D tensor with two rows")
    ELSE LET axis == NodeAxis(lyr.node_dim)
             size == Q.shape[axis]
             src  == ei.val[1]
             dst  == ei.val[2]
         IN  IF \E e \in 1..ei.shape[2] : src[e] >= size \/ dst[e] >= size
             THEN Fail("index_select: index out of range")
             ELSE LET Q_i == IndexSelect(Q.val, axis, dst)
                      K_j == IndexSelect(K.val, axis, src)
                      V_j == IndexSelect(V.val, axis, src)
                      msgs == Message(Q_i, K_j, V_j, mask)
                  IN  Tensor(Q.shape, Aggregate(msgs, axis, dst, size, Q.shape), <<>>)

\* out = self.lin_out(out.view(-1, H * D)); out = self.norm(out + x)
Output(a, x, lyr) ==
    LET H == lyr.heads
        D == lyr.out_channels
        N == Numel(a.shape) \div (H * D)
        sum == BroadcastShape(<<N, D>>, x.shape)
    IN  IF ~sum.ok
        THEN Fail("add: the shapes of out and x cannot be broadcast")
        ELSE IF sum.shape[Len(sum.shape)] # D
        THEN Fail("LayerNorm: last dimension of the input is not out_channels")
        ELSE Tensor(sum.shape,
                    [n \in 1..N |-> [op |-> "norm", lin_out |-> a.val[n], plus |-> n - 1]],
                    <<x>>)

(***************************************************************************)
(* Specification of one GraphVAE layer applied to a graph.                 *)
(***************************************************************************)
\* Molecules of carbon atoms whose bonds run from the lower to the higher idx.
LayerMols ==
    {m \in Mols : /\ \A k \in DOMAIN m.atoms : m.atoms[k] = 6
                  /\ \A k \in DOMAIN m.bonds : m.bonds[k][1] < m.bonds[k][2]}

\* A Data built by the caller: N >= 1 rows of width w and a (2, E) edge_index.
SuppliedData(m, w) ==
    LET edges == BondLoop(m.bonds, <<>>) IN
    [x |-> [shape |-> <<Len(m.atoms), w>>,
            val   |-> [n \in 1..Len(m.atoms) |-> [c \in 1..w |-> m.atoms[n]]]],
     edge_index |-> [shape |-> <<2, Len(edges)>>,
                     val   |-> <<[e \in 1..Len(edges) |-> edges[e][1]],
                                 [e \in 1..Len(edges) |-> edges[e][2]]>>]]

Graphs ==
    {MolToGraph(m) : m \in LayerMols}
    \cup {SuppliedData(m, w) : m \in {mm \in LayerMols : Len(mm.atoms) >= 1}, w \in 1..MaxDim}

Layers ==
    [in_channels : 1..MaxDim, out_channels : 1..MaxDim, heads : {Heads},
     node_dim : {0, -2}, training : BOOLEAN]

(***************************************************************************)
(* Floats as train meets them: a finite value, nan or inf.                 *)
(***************************************************************************)
Fin(v) == [k |-> "fin", v |-> v]

NaN == [k |-> "nan", v |-> 0]

Inf == [k |-> "inf", v |-> 0]

\* What criterion(...) can return: a finite loss, nan, or inf.
LossValues == {Fin(1), Fin(2), NaN, Inf}

\* total_loss += loss.item()
FAdd(a, b) ==
    IF a.k = "nan" \/ b.k = "nan" THEN NaN
    ELSE IF a.k = "inf" \/ b.k = "inf" THEN Inf
    ELSE Fin(a.v + b.v)

\* f"{total_loss/len(loader):.4f}": the quotient in units of 1/10000, rounded
\* to the nearest unit (n > 0).
Format4(t, n) ==
    IF t.k = "fin" THEN [k |-> "fin", e4 |-> (2 * t.v * 10000 + n) \div (2 * n)]
    ELSE [k |-> t.k, e4 |-> 0]

\* total_loss = 0, at the start of a pass
EpochStartTotal_Carry(t) == t

EpochStartTotal(t) == Fin(0)

\* The parameters after a statement of train or generate_molecule has run on
\* parameters p: optimizer.step() is the one statement that writes them.
ParamsAfter_BackwardWrites(stmt, p) ==
    IF stmt \in {"optimizer.step()", "loss.backward()"} THEN p + 1 ELSE p

ParamsAfter(stmt, p) ==
    IF stmt = "optimizer.step()" THEN p + 1 ELSE p

\* z = torch.randn(1, model.fc_mu.out_features)
Randn(id, m) == [id |-> id, shape |-> <<1, m.latent_dim>>]

\* VAE_GNN.decode(z): self.fc_out(torch.relu(self.fc_decode(z)))
Decode_Stateful(z, m, p) ==
    IF z.shape[Len(z.shape)] # m.latent_dim
    THEN Fail("Linear: last dimension of the input is not in_features")
    ELSE [ok |-> TRUE, err |-> "", op |-> "fc_out", shape |-> Front(z.shape) \o <<1>>,
          of |-> <<z.id, Len(samples)>>, p |-> p]

Decode(z, m, p) ==
    IF z.shape[Len(z.shape)] # m.latent_dim
    THEN Fail("Linear: last dimension of the input is not in_features")
    ELSE [ok |-> TRUE, err |-> "", op |-> "fc_out", shape |-> Front(z.shape) \o <<1>>,
          of |-> <<z.id>>, p |-> p]

\* latent_dim=16, num_layers=4: the defaults of VAE_GNN.__init__
LatentDim == 16
NumLayers == 4

EncIdle ==
    /\ model = [in_channels |-> 1, hidden_channels |-> 1, latent_dim |-> LatentDim,
                num_layers |-> NumLayers, node_dim |-> 0, training |-> TRUE]
    /\ encx = Fail("")
    /\ li = 0
    /\ dropUsed = FALSE
    /\ encs = <<>>
    /\ encModes = <<>>
    /\ epc = "idle"

(***************************************************************************)
(* loss_function.  Reals are fixed-point: mu and logvar entries are whole  *)
(* numbers, exp is a table in units of 1/1000, BCE, KL and the returned    *)
(* loss are in units of 1/2000.  exp(0) is exactly 1 in floating point     *)
(* too.                                                                    *)
(***************************************************************************)
\* logvar.exp(), in units of 1/1000
ExpMilli(lv) ==
    CASE lv = 0 -> 1000
      [] lv = 1 -> 2718
      [] lv = -1 -> 368

\* One entry of 1 + logvar - mu.pow(2) - logvar.exp(), in units of 1/1000
KLTerm_NoOne(m, lv) == 1000 * lv - 1000 * m * m - ExpMilli(lv)

KLTerm(m, lv) == 1000 + 1000 * lv - 1000 * m * m - ExpMilli(lv)

\* torch.sum(...) over the entries
RECURSIVE SumTerms(_, _)
SumTerms(ms, lvs) ==
    IF ms = <<>> THEN 0
    ELSE KLTerm(Head(ms), Head(lvs)) + SumTerms(Tail(ms), Tail(lvs))

\* KL = -0.5 * torch.sum(...), in units of 1/2000
KLDivergence(ms, lvs) == -SumTerms(ms, lvs)

\* beta = 1.0
Beta == 1

LossIdle ==
    /\ BCE = 0
    /\ mu = <<>>
    /\ logvar = <<>>
    /\ KL = 0
    /\ ret = 0
    /\ kpc = "idle"

DriverIdle ==
    /\ setup = "notebook"
    /\ epochs = 0
    /\ nb = 0
    /\ epoch = 0
    /\ bi = 0
    /\ grads = "none"
    /\ fwd = [name |-> "", eps |-> 0]
    /\ loss = Fin(0)
    /\ total_loss = Fin(0)
    /\ reports = <<>>
    /\ steps = 0
    /\ passLog = <<>>
    /\ tpc = "idle"
    /\ num_samples = [t |-> "int", n |-> 0]
    /\ samples = <<>>
    /\ zs = <<>>
    /\ gpc = "idle"

MolIdle ==
    /\ mol = [atoms |-> <<>>, bonds |-> <<>>]
    /\ data = NoData
    /\ mpc = "idle"

LayerIdle ==
    /\ graph = NoData
    /\ layer = [in_channels |-> 1, out_channels |-> 1, heads |-> Heads,
                node_dim |-> 0, training |-> TRUE]
    /\ params = 0
    /\ qkv = [Q |-> Fail(""), K |-> Fail(""), V |-> Fail("")]
    /\ agg = Fail("")
    /\ out = Fail("")
    /\ lpc = "idle"

InitLayer ==
    /\ graph \in Graphs
    /\ layer \in Layers
    /\ params \in {0, 1}
    /\ qkv = [Q |-> Fail(""), K |-> Fail(""), V |-> Fail("")]
    /\ agg = Fail("")
    /\ out = Fail("")
    /\ lpc = "project"
    /\ MolIdle
    /\ EncIdle
    /\ DriverIdle
    /\ LossIdle

\* Q, K, V = lin_q(x).view(...), lin_k(x).view(...), lin_v(x).view(...)
LayerProject ==
    /\ lpc = "project"
    /\ LET Q == Project(graph.x, "lin_q", layer) IN
       /\ qkv' = [Q |-> Q,
                  K |-> Project(graph.x, "lin_k", layer),
                  V |-> Project(graph.x, "lin_v", layer)]
       /\ lpc' = IF Q.ok THEN "propagate" ELSE "raised"
       /\ out' = IF Q.ok THEN out ELSE Q
    /\ UNCHANGED <<graph, layer, params, agg, molVars, encVars, trainVars, genVars, lossVars>>

\* out = self.propagate(edge_index, Q=Q, K=K, V=V)
LayerPropagate ==
    /\ lpc = "propagate"
    /\ \E mask \in DropMasks(layer.training, ScorePositions(graph.edge_index, qkv.Q, layer)) :
        LET a == Propagate(graph.edge_index, qkv.Q, qkv.K, qkv.V, layer, mask) IN
        /\ agg' = a
        /\ lpc' = IF a.ok THEN "output" ELSE "raised"
        /\ out' = IF a.ok THEN out ELSE a
    /\ UNCHANGED <<graph, layer, params, qkv, molVars, encVars, trainVars, genVars, lossVars>>

\* out = self.norm(self.lin_out(out.view(...)) + x); return out
LayerOutput ==
    /\ lpc = "output"
    /\ out' = Output(agg, graph.x, layer)
    /\ lpc' = IF out'.ok THEN "done" ELSE "raised"
    /\ UNCHANGED <<graph, layer, params, qkv, agg, molVars, encVars, trainVars, genVars, lossVars>>

NextLayer == LayerProject \/ LayerPropagate \/ LayerOutput

SpecLayer == InitLayer /\ [][NextLayer]_vars


(***************************************************************************)
(* GraphVAE.forward as one operator, and VAE_GNN.                          *)
(***************************************************************************)
Forward(x, ei, lyr, mask) ==
    LET Q == Project(x, "lin_q", lyr)
        K == Project(x, "lin_k", lyr)
        V == Project(x, "lin_v", lyr)
    IN  IF ~Q.ok THEN Q
        ELSE LET a == Propagate(ei, Q, K, V, lyr, mask) IN
             IF ~a.ok THEN a ELSE Output(a, x, lyr)

\* self.layers[i - 1]: GraphVAE(in_channels, hidden_channels) first, then
\* GraphVAE(hidden_channels, hidden_channels).
LayerOf(m, i) ==
    [in_channels  |-> IF i = 1 THEN m.in_channels ELSE m.hidden_channels,
     out_channels |-> m.hidden_channels,
     heads        |-> Heads,
     node_dim     |-> m.node_dim,
     training     |-> m.training]

\* mu = self.fc_mu(x); logvar = self.fc_logvar(x); return mu, logvar
EncodeReturn(x, m, p) ==
    IF Len(x.shape) = 0 \/ x.shape[Len(x.shape)] # m.hidden_channels
    THEN Fail("Linear: last dimension of the input is not in_features")
    ELSE [ok |-> TRUE, err |-> "",
          mu     |-> [op |-> "fc_mu", shape |-> Front(x.shape) \o <<m.latent_dim>>],
          logvar |-> [op |-> "fc_logvar", shape |-> Front(x.shape) \o <<m.latent_dim>>],
          of |-> x, p |-> p]

(***************************************************************************)
(* Specification of successive encode calls on one model and one graph.    *)
(***************************************************************************)
\* The molecules encode is called on: no atom, C, CO and C-C.
EncMols ==
    {[atoms |-> <<>>, bonds |-> <<>>],
     [atoms |-> <<6>>, bonds |-> <<>>],
     [atoms |-> <<6, 8>>, bonds |-> <<<<0, 1>>>>],
     [atoms |-> <<6, 6>>, bonds |-> <<<<0, 1>>>>]}

Models ==
    [in_channels : 1..MaxDim, hidden_channels : 1..MaxDim, latent_dim : {LatentDim},
     num_layers : {NumLayers}, node_dim : {0, -2}, training : {TRUE}]

\* A model as constructed (nn.Module starts in training mode) and a graph.
InitEncode ==
    /\ model \in Models
    /\ graph \in {MolToGraph(m) : m \in EncMols}
    /\ params = 0
    /\ encx = Fail("")
    /\ li = 0
    /\ dropUsed = FALSE
    /\ encs = <<>>
    /\ encModes = <<>>
    /\ epc = "ready"
    /\ layer = LayerOf(model, 1)
    /\ qkv = [Q |-> Fail(""), K |-> Fail(""), V |-> Fail("")]
    /\ agg = Fail("")
    /\ out = Fail("")
    /\ lpc = "idle"
    /\ MolIdle
    /\ DriverIdle
    /\ LossIdle

\* model.eval()
ModelEval ==
    /\ epc = "ready"
    /\ Len(encs) < 2
    /\ model.training
    /\ model' = [model EXCEPT !.training = FALSE]
    /\ UNCHANGED <<encx, li, dropUsed, encs, encModes, epc, molVars, layerVars, trainVars, genVars, lossVars>>

\* model.train()
ModelTrain ==
    /\ epc = "ready"
    /\ Len(encs) < 2
    /\ ~model.training
    /\ model' = [model EXCEPT !.training = TRUE]
    /\ UNCHANGED <<encx, li, dropUsed, encs, encModes, epc, molVars, layerVars, trainVars, genVars, lossVars>>

\* model.encode(x, edge_index) is entered
EncodeCall ==
    /\ epc = "ready"
    /\ Len(encs) < 2
    /\ encx' = Tensor(graph.x.shape, graph.x.val, <<>>)
    /\ li' = 0
    /\ dropUsed' = FALSE
    /\ encModes' = Append(encModes, model.training)
    /\ epc' = "layers"
    /\ UNCHANGED <<model, encs, molVars, layerVars, trainVars, genVars, lossVars>>

\* for layer in self.layers: x = layer(x, edge_index)
EncodeLayer ==
    /\ epc = "layers"
    /\ li < model.num_layers
    /\ LET lyr == LayerOf(model, li + 1)
           pos == IF dropUsed THEN {}
                  ELSE ScorePositions(graph.edge_index, Project(encx, "lin_q", lyr), lyr)
       IN  \E mask \in DropMasks(lyr.training, pos) :
              LET y == Forward(encx, graph.edge_index, lyr, mask) IN
              /\ encx' = y
              /\ li' = li + 1
              /\ dropUsed' = (dropUsed \/ mask.dropped # {})
              /\ IF y.ok
                 THEN UNCHANGED <<encs, epc>>
                 ELSE /\ encs' = Append(encs, y)
                      /\ epc' = "ready"
    /\ UNCHANGED <<model, encModes, molVars, layerVars, trainVars, genVars, lossVars>>

\* mu = self.fc_mu(x); logvar = self.fc_logvar(x); return mu, logvar
EncodeProject ==
    /\ epc = "layers"
    /\ li = model.num_layers
    /\ encs' = Append(encs, EncodeReturn(encx, model, params))
    /\ epc' = "ready"
    /\ UNCHANGED <<model, encx, li, dropUsed, encModes, molVars, layerVars, trainVars, genVars, lossVars>>

NextEncode == ModelEval \/ ModelTrain \/ EncodeCall \/ EncodeLayer \/ EncodeProject

SpecEncode == InitEncode /\ [][NextEncode]_vars

(***************************************************************************)
(* Specification of the driver: train(model, loader, optimizer, criterion, *)
(* epochs) and generate_molecule(model, num_samples) on one model.         *)
(***************************************************************************)
\* The values torch.randn can draw, by name.
LatentIds == {1, 2}

\* What generate_molecule is given as num_samples: a count, or (as the
\* notebook's last cell does) a SMILES string.
NumSamplesArgs ==
    {[t |-> "int", n |-> k] : k \in 0..MaxSamples} \cup {[t |-> "str", n |-> 0]}

Init ==
    /\ setup \in {"notebook", "returning"}
    /\ epochs \in 0..MaxEpochs
    /\ nb \in 0..MaxBatches
    /\ model = [in_channels |-> 1, hidden_channels |-> 1, latent_dim |-> LatentDim,
                num_layers |-> NumLayers, node_dim |-> 0, training |-> TRUE]
    /\ params = 0
    /\ epoch = 0
    /\ bi = 0
    /\ grads = "none"
    /\ fwd = [name |-> "", eps |-> 0]
    /\ loss = Fin(0)
    /\ total_loss = Fin(0)
    /\ reports = <<>>
    /\ steps = 0
    /\ passLog = <<>>
    /\ tpc = "start"
    /\ num_samples = [t |-> "int", n |-> 0]
    /\ samples = <<>>
    /\ zs = <<>>
    /\ gpc = "ready"
    /\ encx = Fail("")
    /\ li = 0
    /\ dropUsed = FALSE
    /\ encs = <<>>
    /\ encModes = <<>>
    /\ epc = "idle"
    /\ graph = NoData
    /\ layer = LayerOf(model, 1)
    /\ qkv = [Q |-> Fail(""), K |-> Fail(""), V |-> Fail("")]
    /\ agg = Fail("")
    /\ out = Fail("")
    /\ lpc = "idle"
    /\ MolIdle
    /\ LossIdle

\* What every statement of train leaves alone.
TrainFrame ==
    UNCHANGED <<setup, epochs, nb, graph, layer, qkv, agg, out, lpc, molVars, genVars,
                encx, li, dropUsed, encs, encModes, epc, lossVars>>

\* train is called: model.train()
TrainCall ==
    /\ tpc = "start"
    /\ gpc = "ready"
    /\ model' = [model EXCEPT !.training = TRUE]
    /\ params' = ParamsAfter("model.train()", params)
    /\ tpc' = "epoch"
    /\ UNCHANGED <<epoch, bi, grads, fwd, loss, total_loss, reports, steps, passLog>>
    /\ TrainFrame

\* for epoch in range(epochs): total_loss = 0
EpochHead ==
    /\ tpc = "epoch"
    /\ IF epoch < epochs
       THEN /\ total_loss' = EpochStartTotal(total_loss)
            /\ bi' = 0
            /\ passLog' = <<>>
            /\ tpc' = "batch"
       ELSE /\ tpc' = "done"
            /\ UNCHANGED <<total_loss, bi, passLog>>
    /\ params' = ParamsAfter("total_loss = 0", params)
    /\ UNCHANGED <<model, epoch, grads, fwd, loss, reports, steps>>
    /\ TrainFrame

\* for data in loader:
BatchHead ==
    /\ tpc = "batch"
    /\ IF bi < nb
       THEN /\ bi' = bi + 1
            /\ tpc' = "zero_grad"
       ELSE /\ tpc' = "print"
            /\ UNCHANGED bi
    /\ params' = ParamsAfter("for data in loader", params)
    /\ UNCHANGED <<model, epoch, grads, fwd, loss, total_loss, reports, steps, passLog>>
    /\ TrainFrame

\* optimizer.zero_grad()
ZeroGrad ==
    /\ tpc = "zero_grad"
    /\ grads' = "zero"
    /\ params' = ParamsAfter("optimizer.zero_grad()", params)
    /\ tpc' = "encode"
    /\ UNCHANGED <<model, epoch, bi, fwd, loss, total_loss, reports, steps, passLog>>
    /\ TrainFrame

\* out = model(data.x, data.edge_index): mu, logvar = self.encode(x, edge_index)
TrainEncode ==
    /\ tpc = "encode"
    /\ fwd' = [name |-> "mu, logvar", eps |-> 0]
    /\ params' = ParamsAfter("self.encode(x, edge_index)", params)
    /\ tpc' = "reparameterize"
    /\ UNCHANGED <<model, epoch, bi, grads, loss, total_loss, reports, steps, passLog>>
    /\ TrainFrame

\* z = self.reparameterize(mu, logvar)
TrainReparameterize ==
    /\ tpc = "reparameterize"
    /\ \E id \in LatentIds : fwd' = [name |-> "z", eps |-> id]
    /\ params' = ParamsAfter("self.reparameterize(mu, logvar)", params)
    /\ tpc' = "decode"
    /\ UNCHANGED <<model, epoch, bi, grads, loss, total_loss, reports, steps, passLog>>
    /\ TrainFrame

\* out = self.decode(z); VAE_GNN.forward as written then returns None
TrainDecode ==
    /\ tpc = "decode"
    /\ fwd' = [name |-> IF setup = "notebook" THEN "None" ELSE "out", eps |-> fwd.eps]
    /\ params' = ParamsAfter("self.decode(z)", params)
    /\ tpc' = "loss"
    /\ UNCHANGED <<model, epoch, bi, grads, loss, total_loss, reports, steps, passLog>>
    /\ TrainFrame

\* loss = criterion(out, data.x, data.mu, data.logvar): mol_to_graph's Data
\* has no attribute mu, and the notebook's call raises AttributeError.
TrainLoss ==
    /\ tpc = "loss"
    /\ IF setup = "notebook"
       THEN /\ tpc' = "raised"
            /\ UNCHANGED loss
       ELSE /\ \E l \in LossValues : loss' = l
            /\ tpc' = "backward"
    /\ params' = ParamsAfter("criterion(out, data.x, data.mu, data.logvar)", params)
    /\ UNCHANGED <<model, epoch, bi, grads, fwd, total_loss, reports, steps, passLog>>
    /\ TrainFrame

\* loss.backward()
TrainBackward ==
    /\ tpc = "backward"
    /\ grads' = loss.k
    /\ params' = ParamsAfter("loss.backward()", params)
    /\ tpc' = "step"
    /\ UNCHANGED <<model, epoch, bi, fwd, loss, total_loss, reports, steps, passLog>>
    /\ TrainFrame

\* optimizer.step()
OptimizerStep ==
    /\ tpc = "step"
    /\ params' = ParamsAfter("optimizer.step()", params)
    /\ steps' = steps + 1
    /\ tpc' = "accumulate"
    /\ UNCHANGED <<model, epoch, bi, grads, fwd, loss, total_loss, reports, passLog>>
    /\ TrainFrame

\* total_loss += loss.item()
Accumulate ==
    /\ tpc = "accumulate"
    /\ total_loss' = FAdd(total_loss, loss)
    /\ passLog' = Append(passLog, [batch |-> bi, loss |-> loss])
    /\ params' = ParamsAfter("total_loss += loss.item()", params)
    /\ tpc' = "batch"
    /\ UNCHANGED <<model, epoch, bi, grads, fwd, loss, reports, steps>>
    /\ TrainFrame

\* print(f"Epoch {epoch+1}, Loss: {total_loss/len(loader):.4f}"): with an
\* empty loader the division raises ZeroDivisionError.
Report ==
    /\ tpc = "print"
    /\ IF nb = 0
       THEN /\ tpc' = "raised"
            /\ UNCHANGED <<reports, epoch>>
       ELSE /\ reports' = Append(reports, Format4(total_loss, nb))
            /\ epoch' = epoch + 1
            /\ tpc' = "epoch"
    /\ params' = ParamsAfter("print(...)", params)
    /\ UNCHANGED <<model, bi, grads, fwd, loss, total_loss, steps, passLog>>
    /\ TrainFrame

\* What every statement of generate_molecule leaves alone.
GenerateFrame ==
    UNCHANGED <<trainVars, graph, layer, qkv, agg, out, lpc, molVars,
                encx, li, dropUsed, encs, encModes, epc, lossVars>>

\* generate_molecule is called: model.eval(); samples = []
GenerateCall ==
    /\ gpc = "ready"
    /\ tpc \in {"start", "done"}
    /\ \E n \in NumSamplesArgs : num_samples' = n
    /\ model' = [model EXCEPT !.training = FALSE]
    /\ samples' = <<>>
    /\ zs' = <<>>
    /\ params' = ParamsAfter("model.eval()", params)
    /\ gpc' = "loop"
    /\ GenerateFrame

\* for _ in range(num_samples): z = torch.randn(...);
\* sampled_molecule = model.decode(z); samples.append(sampled_molecule)
GenerateSample ==
    /\ gpc = "loop"
    /\ IF num_samples.t # "int"
       THEN /\ gpc' = "raised"
            /\ UNCHANGED <<samples, zs>>
       ELSE IF Len(samples) < num_samples.n
            THEN \E id \in LatentIds :
                    LET z == Randn(id, model) IN
                    /\ zs' = Append(zs, z)
                    /\ samples' = Append(samples, Decode(z, model, params))
                    /\ UNCHANGED gpc
            ELSE /\ gpc' = "returned"
                 /\ UNCHANGED <<samples, zs>>
    /\ params' = ParamsAfter("model.decode(z)", params)
    /\ UNCHANGED <<model, num_samples>>
    /\ GenerateFrame

Next ==
    \/ TrainCall \/ EpochHead \/ BatchHead \/ ZeroGrad
    \/ TrainEncode \/ TrainReparameterize \/ TrainDecode \/ TrainLoss
    \/ TrainBackward \/ OptimizerStep \/ Accumulate \/ Report
    \/ GenerateCall \/ GenerateSample

Spec == Init /\ [][Next]_vars

\* The interpreter runs a started call to its end.
FairSpec == Spec /\ WF_vars(Next)

(***************************************************************************)
(* Specification of loss_function(recon_x, x, mu, logvar).                 *)
(***************************************************************************)
\* The entries of mu and logvar.
Entries == {-1, 0, 1}

\* The reconstruction term of recon_x and x, in units of 1/2000.
BCEValues == {0, 1386, 2626}

InitLoss ==
    /\ BCE \in BCEValues
    /\ \E n \in 1..MaxEntries :
          /\ mu \in [1..n -> Entries]
          /\ logvar \in [1..n -> Entries]
    /\ KL = 0
    /\ ret = 0
    /\ kpc = "call"
    /\ MolIdle
    /\ LayerIdle
    /\ EncIdle
    /\ DriverIdle

\* BCE = F.binary_cross_entropy_with_logits(...); beta = 1.0; KL = ...
LossKL ==
    /\ kpc = "call"
    /\ KL' = KLDivergence(mu, logvar)
    /\ kpc' = "return"
    /\ UNCHANGED <<BCE, mu, logvar, ret, molVars, layerVars, encVars, trainVars, genVars>>

\* return BCE + beta * KL
LossReturn ==
    /\ kpc = "return"
    /\ ret' = BCE + Beta * KL
    /\ kpc' = "done"
    /\ UNCHANGED <<BCE, mu, logvar, KL, molVars, layerVars, encVars, trainVars, genVars>>

NextLoss == LossKL \/ LossReturn

SpecLoss == InitLoss /\ [][NextLoss]_vars

(***************************************************************************)
(* Specification of mol_to_graph: a molecule is converted.                 *)
(***************************************************************************)
InitMol ==
    /\ mol \in Mols
    /\ data = NoData
    /\ mpc = "call"
    /\ LayerIdle
    /\ EncIdle
    /\ DriverIdle
    /\ LossIdle

MolToGraphCall ==
    /\ mpc = "call"
    /\ data' = MolToGraph(mol)
    /\ mpc' = "done"
    /\ UNCHANGED <<mol, layerVars, encVars, trainVars, genVars, lossVars>>

NextMol == MolToGraphCall

SpecMol == InitMol /\ [][NextMol]_vars

(***************************************************************************)
(* exp(score) as a number.  The score of a query and a key vector is a     *)
(* real the parameters determine; the model takes a positive integer that  *)
(* the parameters p and the two vectors determine.  With p = 0 the         *)
(* projections are zero and every score is the same.                       *)
(***************************************************************************)
ExpScore(p, s) == 1 + ((p * (s.q.n + 2 * s.q.h + 3 * s.k.n + 5 * s.k.h)) % 3)

RECURSIVE SumExp(_, _)
SumExp(p, group) ==
    IF group = <<>> THEN 0 ELSE ExpScore(p, Head(group)) + SumExp(p, Tail(group))

\* The sum of the softmax outputs of the messages of a slot, as <<num, den>>.
RECURSIVE SumAlpha(_, _)
SumAlpha(p, slot) ==
    IF slot = <<>> THEN <<0, 1>>
    ELSE LET rest == SumAlpha(p, Tail(slot))
             a == Head(slot).w.alpha
             num == ExpScore(p, a.score)
             den == SumExp(p, a.group)
         IN  <<rest[1] * den + num * rest[2], rest[2] * den>>

(***************************************************************************)
(* Properties of mol_to_graph.                                             *)
(***************************************************************************)
EdgeCols(ei) == IF Len(ei.shape) = 2 THEN 1..ei.shape[2] ELSE {}

EdgeAt(ei, c) == <<ei.val[1][c], ei.val[2][c]>>

\* C1: in the graph mol_to_graph returns for a molecule of N atoms, x has N
\* rows, every endpoint of every edge is a node index in 0..N-1, every bond
\* is an edge, and with every edge (i, j) the edge (j, i) is present.
C1_EdgesValidAndSymmetric ==
    mpc = "done" =>
        LET ei == data.edge_index
            N == Len(mol.atoms)
        IN  /\ Len(data.x.val) = N
            /\ \A c \in EdgeCols(ei) :
                  /\ EdgeAt(ei, c)[1] \in 0..(N - 1)
                  /\ EdgeAt(ei, c)[2] \in 0..(N - 1)
            /\ \A k \in DOMAIN mol.bonds : \E c \in EdgeCols(ei) : EdgeAt(ei, c) = mol.bonds[k]
            /\ \A c \in EdgeCols(ei) :
                  \E d \in EdgeCols(ei) : EdgeAt(ei, d) = <<EdgeAt(ei, c)[2], EdgeAt(ei, c)[1]>>

\* A molecule of three atoms and two bonds has been converted.
C1_Witness ==
    /\ mpc = "done"
    /\ Len(mol.atoms) = 3
    /\ Len(mol.bonds) = 2
    /\ Cardinality(EdgeCols(data.edge_index)) = 4

(***************************************************************************)
(* Properties of one GraphVAE layer.                                       *)
(***************************************************************************)
LayerReturned == lpc \in {"done", "raised"}

\* A graph of N >= 1 nodes of feature width in_channels whose edge_index is a
\* (2, E) tensor of node indices below N.
ValidLayerInput ==
    /\ Len(graph.x.shape) = 2
    /\ graph.x.shape[1] >= 1
    /\ graph.x.shape[2] = layer.in_channels
    /\ EdgeIndexOk(graph.edge_index)
    /\ \A c \in EdgeCols(graph.edge_index) :
          /\ EdgeAt(graph.edge_index, c)[1] < graph.x.shape[1]
          /\ EdgeAt(graph.edge_index, c)[2] < graph.x.shape[1]

\* C5: for every valid graph of N nodes of width D_in and every D_out, the
\* layer's forward returns, without raising, a tensor of shape (N, D_out).
C5_LayerShape ==
    (LayerReturned /\ ValidLayerInput) =>
        /\ lpc = "done"
        /\ out.shape = <<graph.x.shape[1], layer.out_channels>>

\* The graph mol_to_graph builds for a molecule of a single atom.
IsolatedNodeGraph == MolToGraph([atoms |-> <<6>>, bonds |-> <<>>])

\* The layer's output rows when every aggregate is zero: norm(lin_out(0) + x).
ResidualOnly(N, H) ==
    [n \in 1..N |-> [op |-> "norm", lin_out |-> [h \in 1..H |-> <<>>], plus |-> n - 1]]

\* The 1-based positions of the columns of edge_index whose target is node i.
Incoming(ei, i) == {c \in EdgeCols(ei) : EdgeAt(ei, c)[2] = i}

\* C9: on the graph mol_to_graph builds for a single isolated node, a layer
\* of in_channels 1 does not raise and returns the residual-only path; and in
\* every forward a node without incoming edges has a zero aggregate.
C9_IsolatedNode ==
    /\ (LayerReturned /\ graph = IsolatedNodeGraph /\ layer.in_channels = 1) =>
          /\ lpc = "done"
          /\ out.val = ResidualOnly(1, layer.heads)
    /\ (lpc = "done") =>
          \A n \in 1..Len(agg.val) :
              Incoming(graph.edge_index, n - 1) = {} =>
                  \A h \in 1..layer.heads : agg.val[n][h] = <<>>

\* C10: in every forward, for every node with incoming edges and every head,
\* the slot sums one message per incoming edge, each softmax is taken over
\* the scores of the edges into that node, and the softmax outputs sum to 1.
C10_SoftmaxPerDestination ==
    (lpc \in {"output", "done"}) =>
        \A n \in 1..Len(agg.val) :
            LET inc == Incoming(graph.edge_index, n - 1) IN
            inc # {} =>
                \A h \in 1..layer.heads :
                    LET slot == agg.val[n][h]
                        sum == SumAlpha(params, slot)
                    IN  /\ Len(slot) = Cardinality(inc)
                        /\ \A k \in DOMAIN slot :
                              Range(slot[k].w.alpha.group)
                                  = {slot[j].w.alpha.score : j \in DOMAIN slot}
                        /\ sum[1] = sum[2]

BatchesTaken ==
    IF tpc \in {"start", "epoch", "done"} THEN epoch * nb ELSE epoch * nb + bi

\* train is inside the body of the batch loop, before optimizer.step() has run.
BeforeStep ==
    \/ tpc \in {"zero_grad", "encode", "reparameterize", "decode", "loss",
                "backward", "step"}
    \/ tpc = "raised" /\ nb > 0

\* C2: the parameters are written by optimizer.step() and by no other
\* statement of train or generate_molecule (encode, reparameterize and decode
\* included), and the number of writes is the number of batches whose body
\* has reached the statement after the step: one write per batch.
C2_ParamsWrittenOnlyByStep ==
    [][/\ (params' # params) => (tpc = "step" /\ tpc' = "accumulate")
       /\ params' = steps'
       /\ steps' = BatchesTaken' - (IF BeforeStep' THEN 1 ELSE 0)]_vars

\* train has run two passes of two batches, generate_molecule has then
\* returned samples, and the parameters were written four times.
C2_Witness ==
    /\ tpc = "done"
    /\ epochs = 2
    /\ nb = 2
    /\ gpc = "returned"
    /\ Len(samples) > 0
    /\ params = 4

\* C3: once a batch's loss is nan or inf, train goes no further than the
\* statement before optimizer.step(): it raises.
C3_NonFiniteLossHalts ==
    loss.k \in {"nan", "inf"} => tpc \in {"backward", "step", "raised"}

RECURSIVE SumLoss(_)
SumLoss(log) ==
    IF log = <<>> THEN Fin(0) ELSE FAdd(SumLoss(Front(log)), log[Len(log)].loss)

C4_Counts ==
    /\ Len(reports) = epoch
    /\ epoch <= epochs
    /\ (tpc = "batch" /\ bi = 0) => total_loss = Fin(0)
    /\ (tpc \in {"epoch", "done"} /\ reports # <<>>) =>
          /\ reports[Len(reports)] = Format4(SumLoss(passLog), nb)
          /\ [k \in 1..Len(passLog) |-> passLog[k].batch] = [k \in 1..nb |-> k]
    /\ tpc = "done" => (epoch = epochs /\ steps = epochs * nb)

\* C4: a started train ends; when it returns it has made epochs passes and
\* epochs * len(loader) optimizer steps; it prints one average per pass, the
\* sum of the losses of the batches of that pass, each taken once, over
\* len(loader), formatted; total_loss is 0 when a pass starts.
C4_TrainPassesAndReports ==
    /\ []C4_Counts
    /\ (tpc = "epoch") ~> (tpc \in {"done", "raised"})

\* train has returned after two passes of two batches whose averages differ.
C4_Witness ==
    /\ tpc = "done"
    /\ epochs = 2
    /\ nb = 2
    /\ Len(reports) = 2
    /\ reports[1] # reports[2]
    /\ reports[2].k = "fin"

\* C7: the k-th entry of samples is the decoder's output for the k-th latent
\* vector drawn, of shape (1, latent_dim), under the model's parameters, and
\* nothing else; on return samples has num_samples entries.
C7_SamplesIndependent ==
    /\ Len(samples) = Len(zs)
    /\ \A k \in 1..Len(samples) :
          /\ zs[k].shape = <<1, model.latent_dim>>
          /\ samples[k] = [ok |-> TRUE, err |-> "", op |-> "fc_out", shape |-> <<1, 1>>,
                           of |-> <<zs[k].id>>, p |-> params]
    /\ gpc = "returned" => Len(samples) = num_samples.n

\* generate_molecule has returned three samples, not all of the same latent
\* vector.
C7_Witness ==
    /\ gpc = "returned"
    /\ num_samples.n = 3
    /\ Len(samples) = 3
    /\ zs[1] # zs[2]

(***************************************************************************)
(* Properties of loss_function.                                            *)
(***************************************************************************)
AllZero(v) == \A k \in DOMAIN v : v[k] = 0

\* C8: when every entry of mu and of logvar is 0 the KL term is 0, and
\* loss_function returns the reconstruction term BCE.
C8_KLZeroAtStandardNormal ==
    (AllZero(mu) /\ AllZero(logvar)) =>
        /\ kpc \in {"return", "done"} => KL = 0
        /\ kpc = "done" => ret = BCE

\* loss_function has returned for mu and logvar of two zero entries and a
\* reconstruction term that is not 0.
C8_Witness ==
    /\ kpc = "done"
    /\ Len(mu) = 2
    /\ AllZero(mu)
    /\ AllZero(logvar)
    /\ BCE # 0

====
